---- MODULE Spec2Model ----
(***************************************************************************)
(* Model of the interval selection of src/edf_extraction.py:               *)
(* Extractor.extract_good and Extractor.save_edf.                          *)
(*                                                                         *)
(* Time is counted in ticks, TPS ticks to the second, so that the float    *)
(* timestamps of the detectors (annotation onsets such as 450.5 s) and     *)
(* the int() truncations of extract_good are both represented exactly.     *)
(* An interval is a pair <<start, end>> of ticks.                          *)
(***************************************************************************)
EXTENDS Integers, Sequences, FiniteSets, TLC

\* ---------------------------------------------------------------- bounds
TPS == 2
MaxFlat == 1
MaxSeg == 2
MaxCalls == 2
MaxFiles == 3

\* ------------------------------------------------------ program constants
LeadingExclusion == 420
PrevValueInit == 0
HvMinuteLead == 90
HvBeginLead == 30
HvEndLag == 90

Sec(n) == n * TPS

\* ------------------------------------------------------------------- NaN
\* np.nan: a value outside the time axis. Every ordering comparison with
\* it is false and every difference with it is NaN again.
NaN == 0 - 1000000

IsNaN(x) == x = NaN

\* a < b on floats.
Lt(a, b) == ~ IsNaN(a) /\ ~ IsNaN(b) /\ a < b

\* a == b on floats.
Eq(a, b) == ~ IsNaN(a) /\ ~ IsNaN(b) /\ a = b

\* a - b on floats.
Sub(a, b) == IF IsNaN(a) \/ IsNaN(b) THEN NaN ELSE a - b

\* --------------------------------------------------------- input universe
\* Durations len(raw)/target_frequency of the recordings considered.
Durations == {Sec(300), Sec(420), Sec(700)}

\* Outputs of annotate_amplitude: [onset, onset + duration], duration >= 10 s.
FlatUniverse ==
    { <<Sec(400), Sec(450) + 1>>, <<Sec(500), Sec(560)>>,
      <<Sec(500), Sec(620)>>, <<Sec(640) + 1, Sec(655) + 1>> }

\* raw.annotations as hyperventilation reads them: description and onset.
\* "Post HV" stands for "Post HV 30/60/90 Sec" with after = 30, 60 or 90.
HvAnnotations ==
    { <<>>,
      << [description |-> "HV 1Min", onset |-> Sec(30), after |-> 0],
         [description |-> "Post HV", onset |-> Sec(120), after |-> 90] >>,
      << [description |-> "HV Begin", onset |-> Sec(500) + 1, after |-> 0],
         [description |-> "HV End", onset |-> Sec(440) + 1, after |-> 0] >>,
      << [description |-> "Post HV", onset |-> Sec(470), after |-> 60],
         [description |-> "HV 1Min", onset |-> Sec(650), after |-> 0] >>,
      << [description |-> "HV Begin", onset |-> Sec(680), after |-> 0],
         [description |-> "HV End", onset |-> Sec(700), after |-> 0] >>,
      << [description |-> "HV Begin", onset |-> Sec(500), after |-> 0] >>,
      << [description |-> "HV End", onset |-> Sec(500), after |-> 0] >> }

\* Outputs of photic_stimulation: [first onset, last onset + duration].
PhoticUniverse ==
    { <<Sec(500), Sec(540)>>, <<Sec(480), Sec(600) + 1>>,
      <<Sec(430), Sec(430)>>, <<Sec(400), Sec(410)>> }

\* filename arguments of save_edf, character by character.
Filenames ==
    { <<"a", ".", "e">>, <<"a", ".", "b", ".", "e">>, <<"a", "b">>, <<".", "e">> }

TargetLengths == {Sec(0 - 60), 0, Sec(60), Sec(100)}
TargetSegments == 0 .. MaxSeg

SeqsUpTo(S, n) == UNION { [1 .. k -> S] : k \in 0 .. n }

\* annotate_amplitude reports disjoint segments in time order.
IsOrderedDisjoint(s) == \A i \in 1 .. Len(s) - 1 : s[i][2] < s[i + 1][1]

StartsWithin(s, T) == \A i \in 1 .. Len(s) : s[i][1] <= T

\* Annotations lie within the recording.
OnsetsWithin(a, T) == \A i \in 1 .. Len(a) : a[i].onset <= T

\* ------------------------------------------------------ hyperventilation
\* One scan of lines 117-131: the value the last matching annotation
\* leaves in the variable, v when none matches.
RECURSIVE ScanLast(_, _, _, _)
ScanLast(a, description, offset, v) ==
    IF a = <<>> THEN v
    ELSE ScanLast(Tail(a), description, offset,
                  IF Head(a).description = description
                  THEN Head(a).onset + offset - Sec(Head(a).after)
                  ELSE v)

\* start after lines 114-126.
HvStart(a) ==
    LET start == ScanLast(a, "HV 1Min", 0 - Sec(HvMinuteLead), NaN)
    IN  IF IsNaN(start) THEN ScanLast(a, "HV Begin", 0 - Sec(HvBeginLead), NaN)
        ELSE start

\* end after lines 114-131.
HvEnd(a) ==
    LET end == ScanLast(a, "Post HV", Sec(HvEndLag), NaN)
    IN  IF IsNaN(end) THEN ScanLast(a, "HV End", Sec(HvEndLag), NaN)
        ELSE end

\* x != np.nan (line 135): true of every float, NaN included.
NotEqualNaN(x) == TRUE

\* hyperventilation(), lines 107-138.
Hyperventilation(a) ==
    IF NotEqualNaN(HvStart(a)) /\ NotEqualNaN(HvEnd(a))
    THEN << <<HvStart(a), HvEnd(a)>> >>
    ELSE <<>>

VARIABLES
    flat,             \* result of self.flat_intervals() on self.raw
    hv,               \* result of self.hyperventilation() on self.raw
    photic,           \* result of self.photic_stimulation() on self.raw
    tmax,             \* len(self.raw) / self.target_frequency, in ticks
    bad_intervals,    \* self.bad_intervals
    tmp_df,           \* the dataframe tmp_df of the last extract_good
    clean_intervals,  \* self.clean_intervals
    resolution,       \* self.resolution: "unset", "True" or "False"
    outcome,          \* how the last method call ended: "none", "returned",
                      \* "saved" or "raised"
    call,             \* the last extract_good: its arguments, len(clean_intervals)
                      \* before it, and whether it raised
    calls,            \* number of extract_good calls made on this Extractor
    saved,            \* files written by the last save_edf, in order: the
                      \* scan_id and index of the name <scan_id>_<index>.edf
                      \* and the interval cropped
    filename,         \* filename argument of the last save_edf
    batch             \* the loop of slice_edfs / get_processed_data

vars == <<flat, hv, photic, tmax, bad_intervals, tmp_df, clean_intervals,
          resolution, outcome, call, calls, saved, filename, batch>>

\* No batch driver is running.
NoBatch ==
    [driver |-> "none", listing |-> 0, nfiles |-> [given |-> FALSE, n |-> 0],
     pos |-> 0, i |-> 0, attempted |-> <<>>, pc |-> "idle"]

\* ------------------------------------------------------------ list.sort()
\* Comparison by start alone.
StartLess(a, b) == Lt(a[1], b[1])

\* Python compares the [start, end] lists lexicographically.
LexLess(a, b) == Lt(a[1], b[1]) \/ (Eq(a[1], b[1]) /\ Lt(a[2], b[2]))

\* list.sort() on a short list (CPython, fewer than 64 elements): the
\* initial run is found and reversed when descending, then every further
\* element is placed by binary insertion. With a NaN in the list the
\* comparison is not an order and the result depends on these steps.

\* Length of the initial run of s, n >= 2 elements of it known.
RECURSIVE RunLength(_, _, _)
RunLength(s, n, descending) ==
    IF n < Len(s) /\ (IF descending THEN LexLess(s[n + 1], s[n])
                                   ELSE ~ LexLess(s[n + 1], s[n]))
    THEN RunLength(s, n + 1, descending)
    ELSE n

Reverse(s) == [i \in 1 .. Len(s) |-> s[Len(s) + 1 - i]]

\* Binary search for the place of pivot among the first r elements of s;
\* l and r count from 0.
RECURSIVE BinarySearch(_, _, _, _)
BinarySearch(s, pivot, l, r) ==
    IF l >= r THEN l
    ELSE LET p == l + ((r - l) \div 2)
         IN  IF LexLess(pivot, s[p + 1]) THEN BinarySearch(s, pivot, l, p)
             ELSE BinarySearch(s, pivot, p + 1, r)

\* Binary insertion of the elements of s from position start (from 0) on.
RECURSIVE BinarySort(_, _)
BinarySort(s, start) ==
    IF start >= Len(s) THEN s
    ELSE LET pivot == s[start + 1]
             l     == BinarySearch(s, pivot, 0, start)
         IN  BinarySort(SubSeq(s, 1, l) \o <<pivot>> \o SubSeq(s, l + 1, start)
                            \o SubSeq(s, start + 2, Len(s)),
                        start + 1)

SortIntervals(s) ==
    IF Len(s) < 2 THEN s
    ELSE LET descending == LexLess(s[2], s[1])
             n          == RunLength(s, 2, descending)
         IN  BinarySort(IF descending
                        THEN Reverse(SubSeq(s, 1, n)) \o SubSeq(s, n + 1, Len(s))
                        ELSE s,
                        n)

\* bad_intervals after lines 182-194: detectors, sort, synthetic entries.
BadIntervals(f, h, p, T) ==
    <<<<0, Sec(LeadingExclusion)>>>> \o SortIntervals(f \o h \o p) \o <<<<T, T>>>>

\* ------------------------------------------------- overlap fix-up scan
\* The scan without the fix-up: every end is kept.
NoFixUp(ends, prev) == ends

RECURSIVE NewEnds(_, _)
NewEnds(ends, prev) ==
    IF ends = <<>> THEN <<>>
    ELSE IF Lt(Head(ends), prev)
         THEN <<prev>> \o NewEnds(Tail(ends), prev)
         ELSE <<Head(ends)>> \o NewEnds(Tail(ends), Head(ends))

\* next_start taken from the wrong column.
NextEnd(bad, T, i) == IF i < Len(bad) THEN bad[i + 1][2] ELSE T

\* tmp_df['next_start']: start of the next row, tmax for the last row.
NextStart(bad, T, i) == IF i < Len(bad) THEN bad[i + 1][1] ELSE T

\* tmp_df as built by lines 196-214.
BuildDf(bad, T) ==
    LET ends == [i \in 1 .. Len(bad) |-> bad[i][2]]
        ce   == NewEnds(ends, PrevValueInit)
    IN  [i \in 1 .. Len(bad) |->
            [start          |-> bad[i][1],
             end            |-> bad[i][2],
             next_start     |-> NextStart(bad, T, i),
             cumulative_end |-> ce[i],
             clean_periods  |-> Sub(NextStart(bad, T, i), ce[i])]]

IsPositive(row) == Lt(0, row.clean_periods)

\* tmp_df[tmp_df['clean_periods'] > 0]
PositiveRows(df) == SelectSeq(df, IsPositive)

\* Python's // on floats: floor of the quotient, b # 0.
FloorDiv(a, b) == IF b > 0 THEN a \div b ELSE (0 - a) \div (0 - b)

\* Python's int() on a float: truncation towards zero, here to whole seconds.
PyInt(x) == IF x >= 0 THEN (x \div TPS) * TPS ELSE 0 - (((0 - x) \div TPS) * TPS)

RECURSIVE SumSeq(_)
SumSeq(s) == IF s = <<>> THEN 0 ELSE Head(s) + SumSeq(Tail(s))

\* n_available_segments (line 235), target_length # 0.
NAvailableSegments(df, tl) ==
    [i \in 1 .. Len(PositiveRows(df)) |-> FloorDiv(PositiveRows(df)[i].clean_periods, tl)]

\* total_available_segments (line 225), target_length # 0.
TotalAvailableSegments(df, tl) == SumSeq(NAvailableSegments(df, tl))

\* n_samples (lines 229-232).
NSamples(ts, total) == IF ts < total THEN ts ELSE total

\* The inner loop without line 249.
RECURSIVE InnerLoopNoAdvance(_, _, _, _, _)
InnerLoopNoAdvance(ci, current_start, k, n_samples, tl) ==
    IF k <= 0 THEN ci
    ELSE LET ci2 == Append(ci, <<PyInt(current_start), PyInt(current_start + tl)>>)
         IN  IF Len(ci2) >= n_samples THEN ci2
             ELSE InnerLoopNoAdvance(ci2, current_start, k - 1, n_samples, tl)

\* The inner loop, lines 241-251: k iterations left in range(...).
RECURSIVE InnerLoop(_, _, _, _, _)
InnerLoop(ci, current_start, k, n_samples, tl) ==
    IF k <= 0 THEN ci
    ELSE LET ci2 == Append(ci, <<PyInt(current_start), PyInt(current_start + tl)>>)
         IN  IF Len(ci2) >= n_samples THEN ci2
             ELSE InnerLoop(ci2, current_start + tl, k - 1, n_samples, tl)

\* The outer loop, lines 239-253, from span i on.
RECURSIVE OuterLoop(_, _, _, _, _, _)
OuterLoop(ci, starts, navail, i, n_samples, tl) ==
    IF i > Len(starts) THEN ci
    ELSE LET ci2 == InnerLoop(ci, PyInt(starts[i]), navail[i], n_samples, tl)
         IN  IF Len(ci2) >= n_samples THEN ci2
             ELSE OuterLoop(ci2, starts, navail, i + 1, n_samples, tl)

\* starts (line 234).
Starts(df) == [i \in 1 .. Len(PositiveRows(df)) |-> PositiveRows(df)[i].cumulative_end]

\* The resolution test without the target length.
HasPositivePeriod(df, tl) == \E i \in 1 .. Len(df) : Lt(0, df[i].clean_periods)

\* The resolution test of line 217.
HasCleanInterval(df, tl) == \E i \in 1 .. Len(df) : ~ Lt(df[i].clean_periods, tl) /\ ~ IsNaN(df[i].clean_periods)

\* ------------------------------------------------------------------ Init
\* The Extractor after __init__: raw is loaded, clean_intervals is empty,
\* bad_intervals and resolution are not yet set.
Init ==
    /\ tmax \in Durations
    /\ flat \in { s \in SeqsUpTo(FlatUniverse, MaxFlat) :
                    IsOrderedDisjoint(s) /\ StartsWithin(s, tmax) }
    /\ hv \in { Hyperventilation(a) : a \in { b \in HvAnnotations : OnsetsWithin(b, tmax) } }
    /\ photic \in { s \in SeqsUpTo(PhoticUniverse, 1) : StartsWithin(s, tmax) }
    /\ bad_intervals = <<>>
    /\ tmp_df = <<>>
    /\ clean_intervals = <<>>
    /\ resolution = "unset"
    /\ outcome = "none"
    /\ call = [target_length |-> 0, target_segments |-> 0, before |-> 0,
               raised |-> FALSE]
    /\ calls = 0
    /\ saved = <<>>
    /\ filename = <<>>
    /\ batch = NoBatch

\* --------------------------------------------------------- extract_good
ExtractGood(tl, ts) ==
    /\ calls < MaxCalls
    /\ LET bad == BadIntervals(flat, hv, photic, tmax)
           df  == BuildDf(bad, tmax)
       IN  /\ bad_intervals' = bad
           /\ tmp_df' = df
           /\ IF ~ HasCleanInterval(df, tl)
              THEN /\ resolution' = "False"
                   /\ outcome' = "returned"
                   /\ clean_intervals' = clean_intervals
              ELSE /\ resolution' = "True"
                   /\ IF tl = 0 /\ PositiveRows(df) # <<>>
                      THEN \* clean_periods // 0 is inf: int(inf) raises
                           \* OverflowError at line 241, before any append
                           /\ outcome' = "raised"
                           /\ clean_intervals' = clean_intervals
                      ELSE /\ outcome' = "returned"
                           /\ clean_intervals' =
                                IF tl = 0 THEN clean_intervals
                                ELSE OuterLoop(clean_intervals, Starts(df),
                                               NAvailableSegments(df, tl), 1,
                                               NSamples(ts, TotalAvailableSegments(df, tl)),
                                               tl)
    /\ call' = [target_length |-> tl, target_segments |-> ts,
                before |-> Len(clean_intervals),
                raised |-> outcome' = "raised"]
    /\ calls' = calls + 1
    /\ saved' = <<>>
    /\ UNCHANGED <<flat, hv, photic, tmax, filename, batch>>

\* -------------------------------------------------------------- save_edf
\* One file <scan_id>_<n+1>.edf per entry of clean_intervals when
\* self.resolution is true; reading the unset attribute raises.
\* filename.split('.')[0]: the characters before the first '.'.
RECURSIVE ScanId(_)
ScanId(fname) ==
    IF fname = <<>> \/ Head(fname) = "." THEN <<>>
    ELSE <<Head(fname)>> \o ScanId(Tail(fname))

\* Every segment written under the name of the first.
WrittenFilesUnnumbered(ci, fname) ==
    [n \in 1 .. Len(ci) |->
        [scan_id |-> ScanId(fname), index |-> 1, interval |-> ci[n]]]

\* The loop of lines 267-277 over n = 0 .. len(clean_intervals) - 1; the
\* sequence position is n + 1, which is also the index in the file name.
WrittenFiles(ci, fname) ==
    [n \in 1 .. Len(ci) |->
        [scan_id |-> ScanId(fname), index |-> (n - 1) + 1, interval |-> ci[n]]]

SaveEdf(fname) ==
    /\ filename' = fname
    /\ IF resolution = "unset"
       THEN /\ outcome' = "raised"
            /\ saved' = <<>>
       ELSE /\ outcome' = "saved"
            /\ saved' = IF resolution = "True"
                        THEN WrittenFiles(clean_intervals, fname)
                        ELSE <<>>
    /\ UNCHANGED <<flat, hv, photic, tmax, bad_intervals, tmp_df,
                   clean_intervals, resolution, call, calls, batch>>

Next ==
    \/ \E tl \in TargetLengths, ts \in TargetSegments : ExtractGood(tl, ts)
    \/ \E fname \in Filenames : SaveEdf(fname)

Spec == Init /\ [][Next]_vars

\* ------------------------------------------- slice_edfs, get_processed_data
\* The two drivers run the same loop over os.listdir(source_folder); the
\* files of the listing are numbered 1 .. listing. Processing a file either
\* completes (i += 1) or raises inside the try block.
Drivers == {"slice_edfs", "get_processed_data"}

\* nfiles: None, or a number.
NfilesValues ==
    { [given |-> FALSE, n |-> 0] } \cup { [given |-> TRUE, n |-> k] : k \in 0 .. MaxFiles }

\* The Extractor variables while a driver runs: no Extractor is followed.
NoExtractor ==
    /\ flat = <<>> /\ hv = <<>> /\ photic = <<>> /\ tmax = 0
    /\ bad_intervals = <<>> /\ tmp_df = <<>> /\ clean_intervals = <<>>
    /\ resolution = "unset" /\ outcome = "none"
    /\ call = [target_length |-> 0, target_segments |-> 0, before |-> 0,
               raised |-> FALSE]
    /\ calls = 0 /\ saved = <<>> /\ filename = <<>>

InitBatch ==
    /\ NoExtractor
    /\ batch \in { [driver |-> d, listing |-> l, nfiles |-> nf, pos |-> 0, i |-> 0,
                     attempted |-> <<>>, pc |-> "loop"] :
                        d \in Drivers, l \in 0 .. MaxFiles, nf \in NfilesValues }

\* i == nfiles (lines 327-328): never true when nfiles is None.
ReachedLimit(i, nfiles) == nfiles.given /\ i = nfiles.n

\* One iteration in which an exception leaves the loop.
ProcessFileAborting(ok) ==
    /\ batch.pc = "loop"
    /\ batch.pos < batch.listing
    /\ LET i2 == IF ok THEN batch.i + 1 ELSE batch.i
       IN  batch' = [batch EXCEPT
                        !.pos = batch.pos + 1,
                        !.i = i2,
                        !.attempted = Append(batch.attempted,
                                             [file |-> batch.pos + 1, ok |-> ok]),
                        !.pc = IF ReachedLimit(i2, batch.nfiles) \/ ~ ok
                               THEN "done" ELSE "loop"]
    /\ UNCHANGED <<flat, hv, photic, tmax, bad_intervals, tmp_df, clean_intervals,
                   resolution, outcome, call, calls, saved, filename>>

\* One iteration of the for loop (lines 305-328): the next file of the
\* listing is processed inside try/except, i counts the files that
\* completed, and the loop breaks when i == nfiles.
ProcessFile(ok) ==
    /\ batch.pc = "loop"
    /\ batch.pos < batch.listing
    /\ LET i2 == IF ok THEN batch.i + 1 ELSE batch.i
       IN  batch' = [batch EXCEPT
                        !.pos = batch.pos + 1,
                        !.i = i2,
                        !.attempted = Append(batch.attempted,
                                             [file |-> batch.pos + 1, ok |-> ok]),
                        !.pc = IF ReachedLimit(i2, batch.nfiles)
                               THEN "done" ELSE "loop"]
    /\ UNCHANGED <<flat, hv, photic, tmax, bad_intervals, tmp_df, clean_intervals,
                   resolution, outcome, call, calls, saved, filename>>

\* The listing is exhausted: the for loop ends.
ListingExhausted ==
    /\ batch.pc = "loop"
    /\ batch.pos = batch.listing
    /\ batch' = [batch EXCEPT !.pc = "done"]
    /\ UNCHANGED <<flat, hv, photic, tmax, bad_intervals, tmp_df, clean_intervals,
                   resolution, outcome, call, calls, saved, filename>>

NextBatch ==
    \/ \E ok \in BOOLEAN : ProcessFile(ok)
    \/ ListingExhausted

\* The driver is one thread that runs its loop to the end.
SpecBatch == InitBatch /\ [][NextBatch]_vars /\ WF_vars(NextBatch)

\* =====================================================================
\* Vocabulary of the properties
\* =====================================================================
Min(a, b) == IF a < b THEN a ELSE b

\* The segments the last extract_good appended to clean_intervals.
Selected == SubSeq(clean_intervals, call.before + 1, Len(clean_intervals))

\* The intervals the detectors delivered, in the order of lines 184-186.
Detected == flat \o hv \o photic

\* Some detected interval has a NaN endpoint.
HasNaN == \E i \in 1 .. Len(Detected) : IsNaN(Detected[i][1]) \/ IsNaN(Detected[i][2])

\* Some detected interval has its start after its end.
HasReversed == \E i \in 1 .. Len(Detected) : Lt(Detected[i][2], Detected[i][1])

\* Every interval the detectors delivered has start <= end.
WellFormed == ~ HasNaN /\ ~ HasReversed

\* extract_good has been called with a positive target_length on
\* well-formed intervals.
ValidCall == calls >= 1 /\ call.target_length > 0 /\ WellFormed

\* extract_good has been called with a positive target_length and no
\* detected interval is reversed.
OrderedCall == calls >= 1 /\ call.target_length > 0 /\ ~ HasReversed

\* Capacity of a clean span: floor(length / target_length).
Capacity(row) == row.clean_periods \div call.target_length

\* total_available: sum of the capacities of the spans with length > 0.
TotalAvailable ==
    LET rows == { i \in 1 .. Len(tmp_df) : IsPositive(tmp_df[i]) }
        RECURSIVE Sum(_)
        Sum(S) == IF S = {} THEN 0
                  ELSE LET i == CHOOSE j \in S : TRUE
                       IN  Capacity(tmp_df[i]) + Sum(S \ {i})
    IN  Sum(rows)

PositiveSpans == { i \in 1 .. Len(tmp_df) : IsPositive(tmp_df[i]) }

\* Segment seg lies entirely inside the clean span of row i.
InsideSpan(seg, i) ==
    tmp_df[i].cumulative_end <= seg[1] /\ seg[2] <= tmp_df[i].next_start

\* Segment seg was cut from the clean span of row i: it starts at or after
\* the span's start in whole seconds and ends inside the span.
CutFrom(seg, i) ==
    PyInt(tmp_df[i].cumulative_end) <= seg[1] /\ seg[2] <= tmp_df[i].next_start

\* ---------------------------------------------------------------------
\* C1: on a newly constructed Extractor, for target_length > 0 and
\* target_segments >= 0, extract_good selects exactly
\* min(target_segments, total_available) segments.
\* Violated: with target_segments = 0 the loop appends one segment before
\* it tests the count.
C1_CountIsMin ==
    (ValidCall /\ calls = 1) =>
        Len(clean_intervals) = Min(call.target_segments, TotalAvailable)

\* ---------------------------------------------------------------------
\* C2: every selected segment lies entirely inside one clean span of
\* positive length, also when interval endpoints are not whole seconds.
\* Violated: int(cumulative_end) moves the start of the first segment of a
\* span back into the bad interval that precedes it.
C2_SegmentsInsideCleanSpan ==
    ValidCall =>
        \A k \in 1 .. Len(Selected) :
            Cardinality({ i \in PositiveSpans : InsideSpan(Selected[k], i) }) = 1

\* ---------------------------------------------------------------------
\* C3: for every list of detected intervals with start <= end wherever
\* both are numbers, and target_length > 0, the
\* segments an extract_good call selects all come from clean spans of
\* positive length, at most floor(length / target_length) of them from any
\* one span, and no two of them overlap.
\* Violated: the NaN interval of hyperventilation leaves bad_intervals
\* unsorted and restarts the running maximum, so that clean spans overlap.
C3_CapacityAndNoOverlap ==
    OrderedCall =>
        /\ \A k \in 1 .. Len(Selected) :
              \E i \in PositiveSpans : CutFrom(Selected[k], i)
        /\ \A i \in PositiveSpans :
              Cardinality({ k \in 1 .. Len(Selected) : CutFrom(Selected[k], i) })
                  <= Capacity(tmp_df[i])
        /\ \A k1, k2 \in 1 .. Len(Selected) :
              k1 # k2 => \/ Selected[k1][2] <= Selected[k2][1]
                         \/ Selected[k2][2] <= Selected[k1][1]

\* ---------------------------------------------------------------------
\* Points of the time axis are probed at twice the tick resolution, at and
\* next to every endpoint that occurs in bad_intervals, so that every
\* region between two endpoints is represented by one of its points.
Probes ==
    LET ends == { bad_intervals[i][1] : i \in 1 .. Len(bad_intervals) }
                \cup { bad_intervals[i][2] : i \in 1 .. Len(bad_intervals) }
    IN  UNION { { 2 * x - 1, 2 * x, 2 * x + 1 } : x \in ends \ {NaN} }

\* Point p (in half ticks) is covered by a bad interval, ends included.
InBad(p) ==
    \E i \in 1 .. Len(bad_intervals) :
        /\ ~ IsNaN(bad_intervals[i][1]) /\ ~ IsNaN(bad_intervals[i][2])
        /\ 2 * bad_intervals[i][1] <= p /\ p <= 2 * bad_intervals[i][2]

\* Point p (in half ticks) is inside the clean span of row i.
InSpan(p, i) ==
    2 * tmp_df[i].cumulative_end < p /\ p < 2 * tmp_df[i].next_start

\* C4: for every list of detected intervals (none reversed), every point of the recording
\* at or after the leading exclusion that no bad interval covers is inside
\* exactly one clean span of positive length, and no clean span of positive
\* length contains a point that a bad interval covers.
\* Violated: the rows next to the NaN interval of hyperventilation have a
\* NaN length, so the clean stretch around them is in no span.
C4_Coverage ==
    OrderedCall =>
        \A p \in Probes :
            /\ (2 * Sec(LeadingExclusion) <= p /\ p <= 2 * tmax /\ ~ InBad(p))
                  => Cardinality({ i \in PositiveSpans : InSpan(p, i) }) = 1
            /\ InBad(p) => \A i \in PositiveSpans : ~ InSpan(p, i)

\* ---------------------------------------------------------------------
\* a <= b on floats.
Le(a, b) == Lt(a, b) \/ Eq(a, b)

\* C5: for every list of detected intervals (none reversed) the cumulative_end column is
\* non-decreasing, and each entry is the maximum of the ends of the rows at
\* or before it.
\* Violated: a NaN end is copied into the column and restarts the running
\* maximum, so a later entry can be smaller than an earlier one.
C5_CumulativeEndMonotone ==
    OrderedCall =>
        /\ \A i, j \in 1 .. Len(tmp_df) :
              i <= j => Le(tmp_df[i].cumulative_end, tmp_df[j].cumulative_end)
        /\ \A i \in 1 .. Len(tmp_df) :
              /\ \A k \in 1 .. i : Le(bad_intervals[k][2], tmp_df[i].cumulative_end)
              /\ \E k \in 1 .. i : Eq(bad_intervals[k][2], tmp_df[i].cumulative_end)

\* ---------------------------------------------------------------------
Orderings(n) == { f \in [1 .. n -> 1 .. n] : \A a, b \in 1 .. n : f[a] = f[b] => a = b }

Permuted(s, f) == [i \in 1 .. Len(s) |-> s[f[i]]]

\* C6: whatever the order in which the detectors' intervals (none reversed)
\* are listed,
\* normalization yields the same rows: the same cumulative_end sequence and
\* the same clean spans.
\* Violated: no interval compares less than the NaN interval of
\* hyperventilation or greater, so list.sort() leaves the intervals in an
\* order that depends on the order they came in.
C6_OrderIndependent ==
    OrderedCall =>
        \A f \in Orderings(Len(Detected)) :
            BuildDf(BadIntervals(Permuted(Detected, f), <<>>, <<>>, tmax), tmax)
                = tmp_df

\* ---------------------------------------------------------------------
\* C7: with target_segments = 0 a newly constructed Extractor's
\* extract_good selects nothing and raises nothing.
\* Violated: when the first clean span holds a segment, that segment is
\* appended before the count is compared with n_samples = 0.
C7_ZeroSegmentsSelectsNothing ==
    (ValidCall /\ calls = 1 /\ call.target_segments = 0) =>
        (clean_intervals = <<>> /\ ~ call.raised)

\* ---------------------------------------------------------------------
\* The slots of the clean span of row i: cumulative_end + (m-1) * tl up to
\* cumulative_end + m * tl for m = 1 .. capacity.
SlotsOf(i) ==
    [m \in 1 .. Capacity(tmp_df[i]) |->
        << tmp_df[i].cumulative_end + (m - 1) * call.target_length,
           tmp_df[i].cumulative_end + m * call.target_length >>]

\* The slots of the positive-length spans of rows i .. Len(tmp_df), in order.
RECURSIVE SlotsFrom(_)
SlotsFrom(i) ==
    IF i > Len(tmp_df) THEN <<>>
    ELSE (IF IsPositive(tmp_df[i]) THEN SlotsOf(i) ELSE <<>>) \o SlotsFrom(i + 1)

\* C8: the selection of a newly constructed Extractor is in non-decreasing
\* start order and consists of the first min(target_segments,
\* total_available) slots, spans in time order, slots in order within a span.
\* Violated: with target_segments = 0 one slot is selected, and a span that
\* starts at a fraction of a second is cut from the whole second before it.
C8_EarliestFirst ==
    (ValidCall /\ calls = 1) =>
        /\ \A k \in 1 .. Len(clean_intervals) - 1 :
              clean_intervals[k][1] <= clean_intervals[k + 1][1]
        /\ clean_intervals =
              SubSeq(SlotsFrom(1), 1, Min(call.target_segments, TotalAvailable))

\* ---------------------------------------------------------------------
NoFileWritten == saved = <<>>

\* C9: when target_length > 0 and no clean span holds a segment,
\* extract_good raises nothing, selects nothing (a newly constructed
\* Extractor keeps an empty clean_intervals), sets resolution to False, and
\* a save_edf that follows writes no file.
C9_InsufficientCleanDuration ==
    (calls >= 1 /\ call.target_length > 0 /\ TotalAvailable = 0) =>
        /\ ~ call.raised
        /\ resolution = "False"
        /\ Selected = <<>>
        /\ calls = 1 => clean_intervals = <<>>
        /\ outcome = "saved" => NoFileWritten

\* Witness of C9: a recording shorter than the leading exclusion went
\* through extract_good and save_edf.
C9_Witness ==
    /\ calls >= 1 /\ call.target_length > 0 /\ TotalAvailable = 0
    /\ tmax < Sec(LeadingExclusion)
    /\ \A i \in 1 .. Len(tmp_df) : ~ IsPositive(tmp_df[i])
    /\ outcome = "saved"

\* ---------------------------------------------------------------------
\* C10: a call with target_length <= 0 or with a bad interval whose start
\* exceeds its end ends in an error and selects no segment.
\* Violated: nothing is validated; a negative target_length returns with
\* resolution True, and a reversed interval yields a selection.
C10_InvalidInputFailsFast ==
    (calls >= 1 /\ (call.target_length <= 0 \/ HasReversed)) =>
        (call.raised /\ Selected = <<>>)

\* ---------------------------------------------------------------------
\* C11: for every list of detected intervals (none reversed), no segment in clean_intervals
\* starts before the end of the leading exclusion.
\* Violated: after the NaN interval of hyperventilation the running maximum
\* restarts below 420 s, and a clean span begins at the end of an interval
\* that lies inside the leading exclusion.
C11_LeadingExclusion ==
    OrderedCall =>
        \A k \in 1 .. Len(clean_intervals) :
            clean_intervals[k][1] >= Sec(LeadingExclusion)

\* ---------------------------------------------------------------------
\* The characters of fname up to its first '.': a prefix of fname without
\* a '.', followed by a '.' or by the end of fname.
IsBaseName(b, fname) ==
    /\ Len(b) <= Len(fname)
    /\ \A k \in 1 .. Len(b) : b[k] = fname[k] /\ b[k] # "."
    /\ Len(b) < Len(fname) => fname[Len(b) + 1] = "."

\* C12: after an extract_good that found clean intervals, save_edf writes
\* one file per entry of clean_intervals, in order, the k-th under the name
\* <base_name>_<k>, and no two under the same name.
C12_OneFilePerSegment ==
    (outcome = "saved" /\ resolution = "True" /\ ~ call.raised) =>
        /\ Len(saved) = Len(clean_intervals)
        /\ \A k \in 1 .. Len(saved) :
              /\ saved[k].interval = clean_intervals[k]
              /\ saved[k].index = k
              /\ IsBaseName(saved[k].scan_id, filename)
        /\ \A k1, k2 \in 1 .. Len(saved) :
              k1 # k2 => <<saved[k1].scan_id, saved[k1].index>>
                           # <<saved[k2].scan_id, saved[k2].index>>

\* Witness of C12: two or more segments were written for a filename with
\* two dots.
C12_Witness ==
    /\ outcome = "saved" /\ resolution = "True" /\ ~ call.raised
    /\ Len(saved) >= 2
    /\ Cardinality({ k \in 1 .. Len(filename) : filename[k] = "." }) = 2

\* ---------------------------------------------------------------------
\* The attempts made so far are the files 1 .. pos of the listing, each
\* once, in the order of the listing.
AttemptedInOrder ==
    /\ Len(batch.attempted) = batch.pos
    /\ \A k \in 1 .. Len(batch.attempted) : batch.attempted[k].file = k

\* C13: with nfiles = None, whatever files fail, every file of the listing
\* is attempted exactly once, in order, and the loop ends.
C13_BatchContinues ==
    /\ [](~ batch.nfiles.given =>
            /\ AttemptedInOrder
            /\ batch.pc = "done" => Len(batch.attempted) = batch.listing)
    /\ [](~ batch.nfiles.given => <>(batch.pc = "done"))

\* Witness of C13: the loop ended after a file failed and later files were
\* attempted.
C13_Witness ==
    /\ ~ batch.nfiles.given
    /\ batch.pc = "done"
    /\ Len(batch.attempted) = batch.listing
    /\ \E k \in 1 .. Len(batch.attempted) - 1 : ~ batch.attempted[k].ok

\* Number of files among the first k attempts that completed.
Completed(k) == Cardinality({ j \in 1 .. k : batch.attempted[j].ok })

\* C14: with nfiles = n >= 0 at most n files complete, and no file is
\* attempted once n files have completed.
\* Violated: i == nfiles is tested only after a file was processed; with
\* nfiles = 0 the first file is processed, i is 1 and never equals 0 again.
C14_NfilesLimits ==
    batch.nfiles.given =>
        /\ Completed(Len(batch.attempted)) <= batch.nfiles.n
        /\ \A k \in 1 .. Len(batch.attempted) : Completed(k - 1) < batch.nfiles.n

\* ---------------------------------------------------------------------
\* C15: hyperventilation returns no interval with a NaN endpoint (it
\* returns [] when start or end is unresolved), so none enters bad_intervals.
\* Violated: start != np.nan and end != np.nan is true of every float, so
\* [start, end] is returned also when start or end is NaN.
C15_NoNaNInterval ==
    /\ \A k \in 1 .. Len(hv) : ~ IsNaN(hv[k][1]) /\ ~ IsNaN(hv[k][2])
    /\ \A k \in 1 .. Len(bad_intervals) :
          ~ IsNaN(bad_intervals[k][1]) /\ ~ IsNaN(bad_intervals[k][2])

\* ---------------------------------------------------------------------
\* C16: an extract_good call with the target_length > 0 and target_segments
\* >= 1 of the call before it, on the same Extractor, leaves clean_intervals as
\* that call left it.
\* Violated: clean_intervals is emptied only in __init__; the second call
\* appends to what the first call selected.
C16_NoHiddenState ==
    [][(/\ calls >= 1 /\ calls' = calls + 1
        /\ ~ call.raised /\ call.target_length > 0 /\ call.target_segments >= 1
        /\ WellFormed
        /\ call'.target_length = call.target_length
        /\ call'.target_segments = call.target_segments)
       => clean_intervals' = clean_intervals]_vars

====
